---------------------------- MODULE Spec2Model ----------------------------
(***************************************************************************)
(* Model of src/src/client/refresh.c (Q2RTX): the video mode parsers, the  *)
(* fullscreen toggle, the per-frame tick CL_RunRefresh with its pending    *)
(* mode-change mask, and CL_InitRefresh / CL_ShutdownRefresh with the      *)
(* driver selection and fallback loops.                                    *)
(*                                                                         *)
(* C strings are sequences of one-character strings; a read at or past the *)
(* end of the sequence yields NUL.                                         *)
(***************************************************************************)
EXTENDS Integers, Sequences, FiniteSets, TLC

(***************************************************************************)
(* Characters and the C library conversions used by the parsers            *)
(***************************************************************************)

NUL == ""

At(s, p) == IF p >= 1 /\ p <= Len(s) THEN s[p] ELSE NUL

Q_isspace(c) == c \in {" ", "\t", "\n", "\r"}

IsDigit(c) == c \in {"0", "1", "2", "3", "4", "5", "6", "7", "8", "9"}

DigitVal(c) ==
    CASE c = "0" -> 0 [] c = "1" -> 1 [] c = "2" -> 2 [] c = "3" -> 3
      [] c = "4" -> 4 [] c = "5" -> 5 [] c = "6" -> 6 [] c = "7" -> 7
      [] c = "8" -> 8 [] c = "9" -> 9

DigitChar(d) ==
    CASE d = 0 -> "0" [] d = 1 -> "1" [] d = 2 -> "2" [] d = 3 -> "3"
      [] d = 4 -> "4" [] d = 5 -> "5" [] d = 6 -> "6" [] d = 7 -> "7"
      [] d = 8 -> "8" [] d = 9 -> "9"

\* Numbers are exact within the range of a 32-bit int, the type of the
\* rectangle fields.  A digit string whose value lies beyond that range is
\* represented by the nearest end of the range: every such unsigned value is
\* above all the limits the parsers compare with, and a 32-bit strtol clamps
\* there.
INT_MIN == -2147483647 - 1
INT_MAX == -(INT_MIN + 1)

\* First position >= p that holds no white space.
RECURSIVE SkipSpace(_, _)
SkipSpace(s, p) == IF Q_isspace(At(s, p)) THEN SkipSpace(s, p + 1) ELSE p

\* First position >= p that holds no digit.
RECURSIVE DigitsEnd(_, _)
DigitsEnd(s, p) == IF IsDigit(At(s, p)) THEN DigitsEnd(s, p + 1) ELSE p

\* Minus the value of the digits s[p..q-1], accumulated on the negative side
\* (which holds one value more) and saturated at INT_MIN.
RECURSIVE NegDigitsValue(_, _, _, _)
NegDigitsValue(s, p, q, acc) ==
    IF p >= q THEN acc
    ELSE LET d == DigitVal(s[p])
         IN  IF acc < -214748364 \/ (acc = -214748364 /\ d > 8)
             THEN INT_MIN
             ELSE NegDigitsValue(s, p + 1, q, acc * 10 - d)

\* The subject sequence of strtoul/strtol: white space, an optional sign,
\* digits.  digits = FALSE when there is no conversion.
SubjectDigits(a, sign, b, e) ==
    [neg |-> sign = "-", from |-> b, to |-> e, digits |-> e > b]
SubjectSign(s, a, b) == SubjectDigits(a, At(s, a), b, DigitsEnd(s, b))
SubjectFrom(s, a) ==
    SubjectSign(s, a, IF At(s, a) \in {"+", "-"} THEN a + 1 ELSE a)
Subject(s, p) == SubjectFrom(s, SkipSpace(s, p))

\* strtoul(s + p, &end, 10): [val, end].  No digits: 0 and end = p.  A leading
\* '-' negates the value in the unsigned type, which for a non-zero magnitude
\* within the int range gives a value above INT_MAX.
strtoulValue(p, sub, neg) ==
    IF ~sub.digits THEN [val |-> 0, end |-> p]
    ELSE IF neg = 0 THEN [val |-> 0, end |-> sub.to]
    ELSE IF sub.neg \/ neg = INT_MIN THEN [val |-> INT_MAX, end |-> sub.to]
    ELSE [val |-> -neg, end |-> sub.to]
strtoulSubject(s, p, sub) ==
    strtoulValue(p, sub, NegDigitsValue(s, sub.from, sub.to, 0))
strtoul(s, p) == strtoulSubject(s, p, Subject(s, p))

\* strtol(s + p, &end, 10): [val, end].
strtolValue(p, sub, neg) ==
    IF ~sub.digits THEN [val |-> 0, end |-> p]
    ELSE IF sub.neg THEN [val |-> neg, end |-> sub.to]
    ELSE [val |-> IF neg = INT_MIN THEN INT_MAX ELSE -neg, end |-> sub.to]
strtolSubject(s, p, sub) ==
    strtolValue(p, sub, NegDigitsValue(s, sub.from, sub.to, 0))
strtol(s, p) == strtolSubject(s, p, Subject(s, p))

\* cvar->integer: the cvar store keeps atoi(string) beside the string.
CvarInteger(s) == strtol(s, 1).val

\* strncmp(s + p, lit, Len(lit)) == 0
StartsWith(s, p, lit) == \A k \in 1..Len(lit) : At(s, p + k - 1) = lit[k]

\* The decimal digits of n <= 0 taken as a magnitude (so that INT_MIN, whose
\* magnitude is no int, is printed too).
RECURSIVE NegDecStr(_)
NegDecStr(n) ==
    LET d == (10 - (n % 10)) % 10
    IN  IF n > -10 THEN <<DigitChar(-n)>>
        ELSE NegDecStr((n + d) \div 10) \o <<DigitChar(d)>>

\* printf %d and %+d of an int.
FmtD(n) == IF n < 0 THEN <<"-">> \o NegDecStr(n) ELSE NegDecStr(-n)
FmtPlusD(n) == IF n < 0 THEN <<"-">> \o NegDecStr(n) ELSE <<"+">> \o NegDecStr(-n)

(***************************************************************************)
(* HELPER FUNCTIONS: the mode parsers                                      *)
(***************************************************************************)

MAX_QPATH == 64

Rect(x, y, w, h) == [x |-> x, y |-> y, width |-> w, height |-> h]

Malformed == [ok |-> FALSE, w |-> 0, h |-> 0, freq |-> 0, depth |-> 0, end |-> 0]

\* A token of the mode list parsed: its fields and the position after it.
ModeFields(w, h, freq, depth, end) ==
    [ok |-> TRUE, w |-> w, h |-> h, freq |-> freq, depth |-> depth, end |-> end]

\* One iteration body of the loop of VID_GetFullscreen, the token at p, from
\* its last conversion back to its first: rw, rh, rf, rd are the results of
\* the strtoul calls for the width, the height, the frequency and the depth.
ModeFreqDepth(rw, rh, rf, rd) == ModeFields(rw.val, rh.val, rf.val, rd.val, rd.end)
ModeDepthFreq(rw, rh, rd, rf) == ModeFields(rw.val, rh.val, rf.val, rd.val, rf.end)

\* if (*s == '@') { freq = strtoul(...); if (*s == ':') depth = strtoul(...); }
ModeFreqFirst(s, rw, rh, rf) ==
    IF At(s, rf.end) = ":"
    THEN ModeFreqDepth(rw, rh, rf, strtoul(s, rf.end + 1))
    ELSE ModeFields(rw.val, rh.val, rf.val, 0, rf.end)

\* else if (*s == ':') { depth = strtoul(...); if (*s == '@') freq = strtoul(...); }
ModeDepthFirst(s, rw, rh, rd) ==
    IF At(s, rd.end) = "@"
    THEN ModeDepthFreq(rw, rh, rd, strtoul(s, rd.end + 1))
    ELSE ModeFields(rw.val, rh.val, 0, rd.val, rd.end)

ModeHeight(s, rw, rh) ==
    IF At(s, rh.end) = "@" THEN ModeFreqFirst(s, rw, rh, strtoul(s, rh.end + 1))
    ELSE IF At(s, rh.end) = ":" THEN ModeDepthFirst(s, rw, rh, strtoul(s, rh.end + 1))
    ELSE ModeFields(rw.val, rh.val, 0, 0, rh.end)

ModeWidth(s, rw) ==
    IF At(s, rw.end) \notin {"x", "X"} THEN Malformed
    ELSE ModeHeight(s, rw, strtoul(s, rw.end + 1))

DesktopToken(s, q) ==
    IF At(s, q) # NUL /\ ~Q_isspace(At(s, q)) THEN Malformed
    ELSE ModeFields(0, 0, 0, 0, q)

ParseModeToken(s, p) ==
    IF StartsWith(s, p, <<"d", "e", "s", "k", "t", "o", "p">>)
    THEN DesktopToken(s, p + 7)
    ELSE ModeWidth(s, strtoul(s, p))

\* The while (1) loop of VID_GetFullscreen from token number `mode` at p:
\* the selected token, or ok = FALSE (malformed, or the list ended first).
\* ModeStep is the loop body after the token t has been parsed.
RECURSIVE ModeLoop(_, _, _, _)
ModeStep(s, t, mode, target) ==
    IF ~t.ok THEN Malformed
    ELSE IF mode = target THEN t
    ELSE IF At(s, SkipSpace(s, t.end)) = NUL THEN Malformed
    ELSE ModeLoop(s, SkipSpace(s, t.end), mode + 1, target)

ModeLoop(s, p, mode, target) == ModeStep(s, ParseModeToken(s, p), mode, target)

\* The sanity check of VID_GetFullscreen.
FullscreenSane(w, h, freq, depth) ==
    ~(w < 320 \/ w > 8192 \/ h < 240 \/ h > 8192 \/ freq > 1000 \/ depth > 32)

\* "fill in default parameters" of VID_GetFullscreen.
FullscreenDefaults ==
    [ret |-> FALSE, rc |-> Rect(0, 0, 640, 480), freq |-> 0, depth |-> 0]

\* Mutant: the outputs are stored before the sanity check.
FullscreenResult_StoreFirst(m) ==
    IF ~m.ok THEN FullscreenDefaults
    ELSE [ret |-> FullscreenSane(m.w, m.h, m.freq, m.depth),
          rc |-> Rect(0, 0, m.w, m.h), freq |-> m.freq, depth |-> m.depth]

\* VID_GetFullscreen after its loop: the sanity check and the outputs.
FullscreenResult(m) ==
    IF ~m.ok THEN FullscreenDefaults
    ELSE IF ~FullscreenSane(m.w, m.h, m.freq, m.depth) THEN FullscreenDefaults
    ELSE [ret |-> TRUE, rc |-> Rect(0, 0, m.w, m.h),
          freq |-> m.freq, depth |-> m.depth]

\* VID_GetFullscreen from the first non-space character of the mode list.
FullscreenFrom(modelist, start, fsint) ==
    IF At(modelist, start) = NUL THEN FullscreenDefaults
    ELSE FullscreenResult(ModeLoop(modelist, start, 1, fsint))

\* VID_GetFullscreen(&rc, &freq, &depth) with vid_modelist->string = modelist
\* and vid_fullscreen->integer = fsint; present = both cvars exist.
VID_GetFullscreen(present, modelist, fsint) ==
    IF ~present THEN FullscreenDefaults
    ELSE FullscreenFrom(modelist, SkipSpace(modelist, 1), fsint)

\* The sanity check of VID_GetGeometry.
GeometrySane(w, h) == ~(w < 320 \/ w > 8192 \/ h < 240 \/ h > 8192)

\* "fill in default parameters" of VID_GetGeometry.
GeometryDefaults == [ret |-> FALSE, rc |-> Rect(100, 100, 1280, 720)]

\* VID_GetGeometry after its conversions: the sanity check and the outputs.
GeometryResult(w, h, x, y) ==
    IF ~GeometrySane(w, h) THEN GeometryDefaults
    ELSE [ret |-> TRUE, rc |-> Rect(x, y, w, h)]

\* x = strtol(...); if (*s == '+' || *s == '-') y = strtol(...);
GeometryX(g, rw, rh, rx) ==
    IF At(g, rx.end) \in {"+", "-"}
    THEN GeometryResult(rw.val, rh.val, rx.val, strtol(g, rx.end).val)
    ELSE GeometryResult(rw.val, rh.val, rx.val, GeometryDefaults.rc.y)

\* h = strtoul(...); x = rc->x; y = rc->y; if (*s == '+' || *s == '-') ...
GeometryHeight(g, rw, rh) ==
    IF At(g, rh.end) \in {"+", "-"}
    THEN GeometryX(g, rw, rh, strtol(g, rh.end))
    ELSE GeometryResult(rw.val, rh.val, GeometryDefaults.rc.x, GeometryDefaults.rc.y)

GeometryWidth(g, rw) ==
    IF At(g, rw.end) \notin {"x", "X"} THEN GeometryDefaults
    ELSE GeometryHeight(g, rw, strtoul(g, rw.end + 1))

\* VID_GetGeometry(&rc) with vid_geometry->string = geometry.
VID_GetGeometry(present, geometry) ==
    IF ~present THEN GeometryDefaults
    ELSE IF At(geometry, 1) = NUL THEN GeometryDefaults
    ELSE GeometryWidth(geometry, strtoul(geometry, 1))

\* What of a formatted string fits a buffer of n + 1 characters.
Truncate(full, n) == IF Len(full) > n THEN SubSeq(full, 1, n) ELSE full

\* Mutant: the format is "%dx%d%d%d" (no forced sign).
FormatGeometry_NoPlus(rc) ==
    Truncate(FmtD(rc.width) \o <<"x">> \o FmtD(rc.height)
             \o FmtD(rc.x) \o FmtD(rc.y), MAX_QPATH - 1)

\* Q_snprintf(buffer, sizeof(buffer), "%dx%d%+d%+d", ...)
FormatGeometry(rc) ==
    Truncate(FmtD(rc.width) \o <<"x">> \o FmtD(rc.height)
             \o FmtPlusD(rc.x) \o FmtPlusD(rc.y), MAX_QPATH - 1)

(***************************************************************************)
(* Bounds of the model                                                     *)
(***************************************************************************)

\* Entries of the driver registry vid_drivers[] (the loops of CL_InitRefresh
\* walk any NULL-terminated registry; the shipped one holds vid_sdl alone).
NumDrivers == 3

\* Commands the command buffer holds at most.
MaxCmds == 1

\* Events one pump_events() delivers at most.
MaxPumpEvents == 1

(***************************************************************************)
(* State                                                                   *)
(***************************************************************************)

VARIABLES
    ref_initialized,    \* cls.ref_initialized
    ref_type,           \* cls.ref_type
    mode_changed,       \* static int mode_changed
    vid,                \* the active driver slot: a driver's name, "" zeroed
    R_table,            \* the R_*, IMG_*, MOD_* pointers: "NULL", "GL", "RTX"
    cvar_ptrs,          \* the module's cvar_t pointers are set
    changed,            \* cvars whose changed callback is attached
    cvar_defined,       \* cvars the store holds
    vid_fullscreen,     \* vid_fullscreen->string
    _vid_fullscreen,    \* _vid_fullscreen->string
    vid_driver,         \* vid_driver->string
    vid_rtx,            \* vid_rtx->string
    vid_geometry,       \* vid_geometry->string
    vid_modelist,       \* vid_modelist->string
    cvar_modified,      \* dirty flags of the cvar store
    cmd_buffer,         \* deferred commands
    fatal,              \* Com_Error(ERR_FATAL) was raised
    build,              \* the renderers compiled in: "GL", "VKPT", "BOTH"
    op,                 \* observation: the operation called last
    calls,              \* observation: the calls it made, in order
    obs,                \* observation: what it read and was given
    hist,               \* observation: the operation before it
    parse,              \* results of the parser calls
    r_config,           \* r_config.width, r_config.height
    get_dpi_scale,      \* vid.get_dpi_scale: <<>> NULL, <<n>> returns n
    scale,              \* results of the scale calls
    trip                \* observation: progress of a fullscreen toggle round trip

vars == <<ref_initialized, ref_type, mode_changed, vid, R_table, cvar_ptrs,
          changed, cvar_defined, vid_fullscreen, _vid_fullscreen, vid_driver,
          vid_rtx, vid_geometry, vid_modelist, cvar_modified, cmd_buffer,
          fatal, build, op, calls, obs, hist, parse, r_config, get_dpi_scale,
          scale, trip>>

(***************************************************************************)
(* Constants of the program                                                *)
(***************************************************************************)

MODE_GEOMETRY == 1
MODE_FULLSCREEN == 2
MODE_MODELIST == 4

HasBit(mask, bit) == (mask \div bit) % 2 = 1
SetBit(mask, bit) == IF HasBit(mask, bit) THEN mask ELSE mask + bit

\* Names the registry may hold, in order; vid_drivers is its first
\* NumDrivers entries.
DriverNames == <<"A", "B", "C", "D", "E">>
vid_drivers == SubSeq(DriverNames, 1, NumDrivers)
Drivers == {vid_drivers[i] : i \in 1..NumDrivers}

\* What a driver's probe member is: absent, or a function returning a value.
ProbeKinds == {"none", "false", "true"}

\* Values given to the cvars.
FsValues == {<<"0">>, <<"1">>, <<"2">>}
RtxValues == {<<"0">>, <<"1">>}
DriverValues == Drivers \cup {"", "nosuch"}
VID_GEOMETRY == <<"6", "4", "0", "x", "4", "8", "0">>
DriverRects == {Rect(100, -50, 1280, 720)}
DriverModeLists == {<<"d", "e", "s", "k", "t", "o", "p">>}
NoRect == Rect(0, 0, 0, 0)

Ev(name) == <<name, "", "">>

\* What an operation read and was given, kept for the properties: the mask
\* and vid_fullscreen->integer the drain of a tick found, the dirty flags
\* and the mask (dmask) the tick found after the drain, and the probe members, the vid_driver string
\* and ref_initialized an operation started with.
NoObs ==
    [mask |-> 0, fsint |-> 0, dirty |-> {}, probe |-> [d \in Drivers |-> "none"],
     drv |-> "", was_init |-> FALSE, ran |-> FALSE, dmask |-> 0]

\* The program state as one record, for the procedures below.
Cur ==
    [ref_initialized |-> ref_initialized, ref_type |-> ref_type,
     mode_changed |-> mode_changed, vid |-> vid, R_table |-> R_table,
     cvar_ptrs |-> cvar_ptrs, changed |-> changed,
     cvar_defined |-> cvar_defined, vid_fullscreen |-> vid_fullscreen,
     _vid_fullscreen |-> _vid_fullscreen, vid_driver |-> vid_driver,
     vid_rtx |-> vid_rtx, vid_geometry |-> vid_geometry,
     vid_modelist |-> vid_modelist, cvar_modified |-> cvar_modified,
     cmd_buffer |-> cmd_buffer, fatal |-> fatal, build |-> build,
     calls |-> <<>>, rt |-> "REF_TYPE_NONE", obs |-> NoObs]

Log(s, ev) == [s EXCEPT !.calls = Append(@, ev)]

(***************************************************************************)
(* The cvar store and the command buffer (external to refresh.c)           *)
(***************************************************************************)

\* Cvar_Get(name, value, flags): the stored string when the cvar exists,
\* else the default.
Cvar_Get(s, name, cur, dflt) == IF name \in s.cvar_defined THEN cur ELSE dflt

\* The three change callbacks.
vid_geometry_changed(mask) == SetBit(mask, MODE_GEOMETRY)
vid_fullscreen_changed(mask) == SetBit(mask, MODE_FULLSCREEN)
vid_modelist_changed(mask) == SetBit(mask, MODE_MODELIST)

\* Cvar_Set / Cvar_SetByVar of the three cvars that carry a callback: a write
\* of the value the cvar holds already changes nothing; any other write
\* stores the string and runs the callback when one is attached (the call is
\* logged).
Set_vid_fullscreen(s, v) ==
    IF "vid_fullscreen" \in s.cvar_defined /\ s.vid_fullscreen = v THEN s
    ELSE [s EXCEPT !.vid_fullscreen = v,
                   !.cvar_defined = @ \cup {"vid_fullscreen"},
                   !.mode_changed = IF "vid_fullscreen" \in s.changed
                                    THEN vid_fullscreen_changed(@) ELSE @,
                   !.calls = IF "vid_fullscreen" \in s.changed
                             THEN Append(@, Ev("vid_fullscreen_changed")) ELSE @]

Set_vid_geometry(s, v) ==
    IF "vid_geometry" \in s.cvar_defined /\ s.vid_geometry = v THEN s
    ELSE [s EXCEPT !.vid_geometry = v,
                   !.cvar_defined = @ \cup {"vid_geometry"},
                   !.mode_changed = IF "vid_geometry" \in s.changed
                                    THEN vid_geometry_changed(@) ELSE @,
                   !.calls = IF "vid_geometry" \in s.changed
                             THEN Append(@, Ev("vid_geometry_changed")) ELSE @]

Set_vid_modelist(s, v) ==
    IF "vid_modelist" \in s.cvar_defined /\ s.vid_modelist = v THEN s
    ELSE [s EXCEPT !.vid_modelist = v,
                   !.cvar_defined = @ \cup {"vid_modelist"},
                   !.mode_changed = IF "vid_modelist" \in s.changed
                                    THEN vid_modelist_changed(@) ELSE @,
                   !.calls = IF "vid_modelist" \in s.changed
                             THEN Append(@, Ev("vid_modelist_changed")) ELSE @]

\* Cvar_Set("_vid_fullscreen", v): no callback, no restart flag.
Set_u_vid_fullscreen(s, v) ==
    [s EXCEPT !._vid_fullscreen = v,
              !.cvar_defined = @ \cup {"_vid_fullscreen"}]

\* A write of a cvar registered with CVAR_REFRESH marks REFRESH dirty.
RefreshDirty(s, name, cur, v) ==
    IF s.cvar_ptrs /\ ~(name \in s.cvar_defined /\ cur = v)
    THEN s.cvar_modified \cup {"REFRESH"} ELSE s.cvar_modified

Set_vid_driver(s, v) ==
    [s EXCEPT !.vid_driver = v,
              !.cvar_defined = @ \cup {"vid_driver"},
              !.cvar_modified = RefreshDirty(s, "vid_driver", s.vid_driver, v)]

Set_vid_rtx(s, v) ==
    [s EXCEPT !.vid_rtx = v,
              !.cvar_defined = @ \cup {"vid_rtx"},
              !.cvar_modified = RefreshDirty(s, "vid_rtx", s.vid_rtx, v)]

(***************************************************************************)
(* VID_SetGeometry, VID_ToggleFullscreen                                   *)
(***************************************************************************)

VID_SetGeometry(s, rc) ==
    IF ~s.cvar_ptrs THEN s
    ELSE Set_vid_geometry(s, FormatGeometry(rc))

CmdWindowed == "set vid_fullscreen 0"
CmdRestore == "set vid_fullscreen $_vid_fullscreen"

\* Cbuf_AddText: the text is dropped when the buffer is full.
Cbuf_AddText(s, cmd) ==
    IF Len(s.cmd_buffer) >= MaxCmds THEN s
    ELSE [s EXCEPT !.cmd_buffer = Append(@, cmd)]

\* Mutant: a toggle from windowed forces _vid_fullscreen to 1 whatever it
\* holds.
VID_ToggleFullscreen_AlwaysForces(s) ==
    IF ~s.cvar_ptrs THEN s
    ELSE IF CvarInteger(s.vid_fullscreen) = 0
    THEN Cbuf_AddText(Set_u_vid_fullscreen(s, <<"1">>), CmdRestore)
    ELSE Cbuf_AddText(s, CmdWindowed)

VID_ToggleFullscreen(s) ==
    IF ~s.cvar_ptrs THEN s
    ELSE IF CvarInteger(s.vid_fullscreen) = 0
    THEN Cbuf_AddText(IF CvarInteger(s._vid_fullscreen) = 0
                      THEN Set_u_vid_fullscreen(s, <<"1">>) ELSE s,
                      CmdRestore)
    ELSE Cbuf_AddText(s, CmdWindowed)

\* Execution of the first buffered command; $_vid_fullscreen is expanded when
\* the command runs.
Cbuf_Execute(s) ==
    LET cmd  == Head(s.cmd_buffer)
        rest == [s EXCEPT !.cmd_buffer = Tail(@)]
    IN  IF cmd = CmdWindowed THEN Set_vid_fullscreen(rest, <<"0">>)
        ELSE Set_vid_fullscreen(rest, rest._vid_fullscreen)

(***************************************************************************)
(* get_auto_scale, R_ClampScale                                            *)
(***************************************************************************)

\* if (v >= hi) scale = 4; else if (v >= lo) scale = 2;  (scale = 1 before)
AxisScale(v, hi, lo) == IF v >= hi THEN 4 ELSE IF v >= lo THEN 2 ELSE 1

\* The scale get_auto_scale picks from r_config.
BaseScale(cfg) ==
    IF cfg.height < cfg.width
    THEN AxisScale(cfg.height, 2160, 1080)
    ELSE AxisScale(cfg.width, 3840, 1920)

Max(a, b) == IF a > b THEN a ELSE b

\* get_auto_scale() with r_config = cfg and vid.get_dpi_scale = dpi.
get_auto_scale(cfg, dpi) ==
    IF dpi # <<>> THEN Max(BaseScale(cfg), dpi[1]) ELSE BaseScale(cfg)

\* Cvar_ClampValue(var, min, max), in tenths.
Cvar_ClampValue(v, min, max) == IF v < min THEN min ELSE IF v > max THEN max ELSE v

\* Mutant: a null cvar is treated like a zero one.
R_ClampScale_NullAsZero(var, cfg, dpi) ==
    IF var # <<>> /\ var[1] # 0 THEN <<10, Cvar_ClampValue(var[1], 10, 100)>>
    ELSE <<1, get_auto_scale(cfg, dpi)>>

\* R_ClampScale(var): the float returned, as <<numerator, denominator>>.
R_ClampScale(var, cfg, dpi) ==
    IF var = <<>> THEN <<1, 1>>
    ELSE IF var[1] # 0 THEN <<10, Cvar_ClampValue(var[1], 10, 100)>>
    ELSE <<1, get_auto_scale(cfg, dpi)>>

(***************************************************************************)
(* LOADING / SHUTDOWN                                                      *)
(***************************************************************************)

\* R_RegisterFunctionsGL / R_RegisterFunctionsRTX as selected by the #if
\* chain of CL_InitRefresh: the back-end the pointers are set to.
R_RegisterFunctions(bld, rtx) ==
    IF bld = "BOTH" THEN (IF CvarInteger(rtx) # 0 THEN "RTX" ELSE "GL")
    ELSE IF bld = "GL" THEN "GL"
    ELSE "RTX"

\* The ref_type_t a successful R_Init of the bound back-end returns.
RefTypeOf(table) == IF table = "RTX" THEN "REF_TYPE_VKPT" ELSE "REF_TYPE_GL"

\* R_Init(true) through the pointer, with driver s.vid in the active slot.
R_InitResult(s, ok) ==
    IF ok[s.vid] THEN RefTypeOf(s.R_table) ELSE "REF_TYPE_NONE"

R_Init(s, ok) ==
    [s EXCEPT !.calls = Append(@, <<"R_Init", s.vid, R_InitResult(s, ok)>>),
              !.rt = R_InitResult(s, ok)]

\* Index of the first registry entry named name, NumDrivers + 1 when none
\* (the position of the terminating NULL).
RECURSIVE FindDriver(_, _)
FindDriver(name, i) ==
    IF i > NumDrivers THEN i
    ELSE IF vid_drivers[i] = name THEN i
    ELSE FindDriver(name, i + 1)

\* vid = *vid_drivers[i]
SetVid(s, name) == [s EXCEPT !.vid = name]

\* "Try to initialize selected driver first"
TrySelected(s, i, ok) ==
    IF i > NumDrivers THEN s
    ELSE R_Init(SetVid(s, vid_drivers[i]), ok)

\* "No such video driver" diagnostics.
NoSuchDriver(s, i) ==
    IF i > NumDrivers /\ s.vid_driver # "" THEN Log(s, Ev("No such video driver"))
    ELSE s

\* Mutant: the loop does not break when R_Init succeeds.
RECURSIVE FallbackLoop_NoBreak(_, _, _, _, _)
FallbackLoop_NoBreak(s, i, tried, probe, ok) ==
    IF i > NumDrivers THEN s
    ELSE LET name == vid_drivers[i]
         IN  IF i = tried \/ probe[name] # "true"
             THEN FallbackLoop_NoBreak(s, i + 1, tried, probe, ok)
             ELSE FallbackLoop_NoBreak(
                      R_Init(SetVid(Log(s, <<"probe", name, "true">>), name), ok),
                      i + 1, tried, probe, ok)

\* The fallback loop from registry index i on.
RECURSIVE FallbackLoop(_, _, _, _, _)
FallbackLoop(s, i, tried, probe, ok) ==
    IF i > NumDrivers THEN s
    ELSE LET name == vid_drivers[i]
         IN  IF i = tried \/ probe[name] = "none"
             THEN FallbackLoop(s, i + 1, tried, probe, ok)
             ELSE IF probe[name] = "false"
             THEN FallbackLoop(Log(s, <<"probe", name, "false">>),
                               i + 1, tried, probe, ok)
             ELSE IF ok[name]
             THEN R_Init(SetVid(Log(s, <<"probe", name, "true">>), name), ok)
             ELSE FallbackLoop(
                      R_Init(SetVid(Log(s, <<"probe", name, "true">>), name), ok),
                      i + 1, tried, probe, ok)

\* "Fall back to other available drivers", with Cvar_Reset(vid_driver).  The
\* driver tried already is the one vid_driver names: the loops in between
\* leave the string alone.
\* Mutant: vid_driver is not reset.
Fallback_NoReset(s, probe, ok) ==
    IF s.rt # "REF_TYPE_NONE" THEN s
    ELSE FallbackLoop(s, 1, FindDriver(s.vid_driver, 1), probe, ok)

Fallback(s, probe, ok) ==
    IF s.rt # "REF_TYPE_NONE" THEN s
    ELSE Set_vid_driver(
             FallbackLoop(s, 1, FindDriver(s.vid_driver, 1), probe, ok), "")

\* The driver's set_mode(); wb is the rectangle the driver writes back with
\* VID_SetGeometry while it runs (NoRect: none).
set_mode(s, wb) ==
    IF wb = NoRect THEN Log(s, Ev("set_mode"))
    ELSE VID_SetGeometry(Log(s, Ev("set_mode")), wb)

\* The cvars of CL_InitRefresh and the normalisation of _vid_fullscreen.
InitCvars(s) ==
    LET fs  == Cvar_Get(s, "vid_fullscreen", s.vid_fullscreen, <<"0">>)
        ufs == Cvar_Get(s, "_vid_fullscreen", s._vid_fullscreen, <<"1">>)
    IN  [s EXCEPT
           !.vid_rtx = Cvar_Get(s, "vid_rtx", @,
                                IF s.build = "GL" THEN <<"0">> ELSE <<"1">>),
           !.vid_driver = Cvar_Get(s, "vid_driver", @, ""),
           !.vid_fullscreen = fs,
           !._vid_fullscreen = IF CvarInteger(fs) # 0 THEN fs
                               ELSE IF CvarInteger(ufs) = 0 THEN <<"1">>
                               ELSE ufs,
           !.vid_geometry = Cvar_Get(s, "vid_geometry", @, VID_GEOMETRY),
           !.cvar_defined = @ \cup {"vid_rtx", "vid_driver", "vid_fullscreen",
                                    "_vid_fullscreen", "vid_geometry"},
           !.cvar_ptrs = TRUE]

\* modelist = vid.get_mode_list(); vid_modelist = Cvar_Get(...)
GetModeList(s, ml) ==
    [s EXCEPT !.calls = Append(@, Ev("get_mode_list")),
              !.vid_modelist = Cvar_Get(s, "vid_modelist", @, ml),
              !.cvar_defined = @ \cup {"vid_modelist"}]

\* CL_InitRefresh after its set_mode(): the flags, the callbacks, the mask,
\* the dependent subsystems and the dirty flags.
InitSubsystems(s) ==
    [s EXCEPT !.ref_type = s.rt,
              !.ref_initialized = TRUE,
              !.changed = {"vid_geometry", "vid_fullscreen", "vid_modelist"},
              !.mode_changed = 0,
              !.calls = @ \o <<Ev("FX_Init"), Ev("V_Init"), Ev("SCR_Init"),
                               Ev("UI_Init"), Ev("R_ClearDebugLines"),
                               Ev("Cmd_AddCommand"), Ev("R_InitDebugText"),
                               Ev("SCR_RegisterMedia"), Ev("Con_RegisterMedia")>>,
              !.cvar_modified = @ \ {"FILES", "REFRESH"}]

\* CL_InitRefresh from the test of ref_type on: the fatal error, or the
\* mode list, set_mode() and the rest.
\* Mutant: the fatal error is missing.
InitRest_NoError(s, ml, wb) ==
    InitSubsystems(set_mode(GetModeList(s, ml), wb))

InitRest(s, ml, wb) ==
    IF s.rt = "REF_TYPE_NONE"
    THEN [s EXCEPT !.calls = Append(@, Ev("Com_Error")), !.fatal = TRUE]
    ELSE InitSubsystems(set_mode(GetModeList(s, ml), wb))

\* The renderer registration and the explicit driver of CL_InitRefresh.
InitSelected(s, ok) ==
    NoSuchDriver(TrySelected(s, FindDriver(s.vid_driver, 1), ok),
                 FindDriver(s.vid_driver, 1))

\* Cvars, normalisation and renderer registration of CL_InitRefresh.
InitRegister(s) ==
    [s EXCEPT !.rt = "REF_TYPE_NONE",
              !.R_table = R_RegisterFunctions(s.build, s.vid_rtx)]

\* Mutant: the guard on ref_initialized is missing.
CL_InitRefresh_NoGuard(s, in) ==
    InitRest(Fallback(InitSelected(InitRegister(InitCvars(s)), in.ok),
                      in.probe, in.ok),
             in.ml, in.wb)

\* CL_InitRefresh.  in: probe (each driver's probe member), ok (whether
\* R_Init succeeds with each driver active), ml (the driver's mode list),
\* wb (what the driver's set_mode writes back).
CL_InitRefresh(s, in) ==
    IF s.ref_initialized THEN s
    ELSE InitRest(Fallback(InitSelected(InitRegister(InitCvars(s)), in.ok),
                           in.probe, in.ok),
                  in.ml, in.wb)

\* CL_ShutdownRefresh.
\* Mutant: the change callbacks stay attached.
CL_ShutdownRefresh_KeepsCallbacks(s) ==
    IF ~s.ref_initialized THEN s
    ELSE [s EXCEPT !.calls = @ \o <<Ev("V_Shutdown"), Ev("SCR_Shutdown"),
                                    Ev("UI_Shutdown"), Ev("Cmd_RemoveCommand"),
                                    Ev("R_Shutdown(true)"),
                                    Ev("Z_LeakTest")>>,
                   !.vid = "",
                   !.ref_initialized = FALSE,
                   !.ref_type = "REF_TYPE_NONE"]

CL_ShutdownRefresh(s) ==
    IF ~s.ref_initialized THEN s
    ELSE [s EXCEPT !.calls = @ \o <<Ev("V_Shutdown"), Ev("SCR_Shutdown"),
                                    Ev("UI_Shutdown"), Ev("Cmd_RemoveCommand"),
                                    Ev("R_Shutdown(true)"),
                                    Ev("Z_LeakTest")>>,
                   !.changed = {},
                   !.vid = "",
                   !.ref_initialized = FALSE,
                   !.ref_type = "REF_TYPE_NONE"]

(***************************************************************************)
(* CL_RunRefresh                                                           *)
(***************************************************************************)

\* What the driver may do to the client while pump_events() runs: report a
\* moved or resized window (VID_SetGeometry), toggle fullscreen on a key,
\* write vid_fullscreen or vid_modelist.
LifeModeLists ==
    DriverModeLists \cup
    {<<"d", "e", "s", "k", "t", "o", "p", " ", "6", "4", "0", "x", "4", "8", "0">>}

PumpEvent ==
    {[kind |-> "geometry", rc |-> r, str |-> <<>>] : r \in DriverRects}
    \cup {[kind |-> "fullscreen", rc |-> NoRect, str |-> v] : v \in FsValues}
    \cup {[kind |-> "modelist", rc |-> NoRect, str |-> m] : m \in LifeModeLists}
    \cup {[kind |-> "toggle", rc |-> NoRect, str |-> <<>>]}

DeliverEvent(s, e) ==
    IF e.kind = "geometry" THEN VID_SetGeometry(s, e.rc)
    ELSE IF e.kind = "fullscreen" THEN Set_vid_fullscreen(s, e.str)
    ELSE IF e.kind = "modelist" THEN Set_vid_modelist(s, e.str)
    ELSE VID_ToggleFullscreen(s)

RECURSIVE DeliverEvents(_, _)
DeliverEvents(s, evs) ==
    IF evs = <<>> THEN s
    ELSE DeliverEvents(DeliverEvent(s, Head(evs)), Tail(evs))

\* vid.pump_events()
pump_events(s, evs) == DeliverEvents(Log(s, Ev("pump_events")), evs)

\* The branch of the drain taken when MODE_FULLSCREEN is pending.
\* Mutant: the mirror of vid_fullscreen into _vid_fullscreen is left out.
MirrorFullscreen_Skipped(s) == s

MirrorFullscreen(s) ==
    IF CvarInteger(s.vid_fullscreen) # 0
    THEN Set_u_vid_fullscreen(s, s.vid_fullscreen) ELSE s

\* Mutant: a fullscreen change switches the mode only when it leads into
\* fullscreen.
DrainFullscreen_OnlyInto(s, wb) ==
    IF CvarInteger(s.vid_fullscreen) # 0
    THEN MirrorFullscreen(set_mode(s, wb)) ELSE s

DrainFullscreen(s, wb) == MirrorFullscreen(set_mode(s, wb))

\* Mutant: the two tests of the branch are exchanged.
DrainOther_Swapped(s, wb) ==
    IF CvarInteger(s.vid_fullscreen) # 0
    THEN (IF HasBit(s.mode_changed, MODE_GEOMETRY) THEN set_mode(s, wb) ELSE s)
    ELSE (IF HasBit(s.mode_changed, MODE_MODELIST) THEN set_mode(s, wb) ELSE s)

\* The branch of the drain taken when MODE_FULLSCREEN is not pending.
DrainOther(s, wb) ==
    IF CvarInteger(s.vid_fullscreen) # 0
    THEN (IF HasBit(s.mode_changed, MODE_MODELIST) THEN set_mode(s, wb) ELSE s)
    ELSE (IF HasBit(s.mode_changed, MODE_GEOMETRY) THEN set_mode(s, wb) ELSE s)

\* if (mode_changed) { ... mode_changed = 0; }
\* Mutant: the mask is not cleared.
ClearMask_Skipped(s) == s

ClearMask(s) == [s EXCEPT !.mode_changed = 0]

\* Mutant: the else of the MODE_FULLSCREEN test is lost, both branches run.
Drain_NoElse(s, wb) ==
    IF s.mode_changed = 0 THEN s
    ELSE ClearMask(IF HasBit(s.mode_changed, MODE_FULLSCREEN)
                   THEN DrainOther(DrainFullscreen(s, wb), wb)
                   ELSE DrainOther(s, wb))

Drain(s, wb) ==
    IF s.mode_changed = 0 THEN s
    ELSE ClearMask(IF HasBit(s.mode_changed, MODE_FULLSCREEN)
                   THEN DrainFullscreen(s, wb) ELSE DrainOther(s, wb))

\* CL_RestartRefresh(total), defined outside refresh.c: a full restart is
\* CL_ShutdownRefresh followed by CL_InitRefresh; a media-only restart has the
\* renderer reload its media, R_Shutdown(false) and R_Init(false).
CL_RestartRefresh(s, total, in) ==
    IF total
    THEN CL_InitRefresh(
             CL_ShutdownRefresh(Log(s, <<"CL_RestartRefresh", "true", "">>)), in)
    ELSE [s EXCEPT !.calls = @ \o <<<<"CL_RestartRefresh", "false", "">>,
                                    Ev("R_Shutdown(false)"),
                                    Ev("R_Init(false)")>>]

\* The dirty-flag tail of CL_RunRefresh.  Com_Error does not return: after a
\* fatal error nothing more of the tick runs.
\* Mutant: the flag that caused the restart is left set.
ClearDirty_Forgets(s, flag) == s

ClearDirty(s, flag) ==
    IF s.fatal THEN s ELSE [s EXCEPT !.cvar_modified = @ \ {flag}]

DirtyFlags(s, in) ==
    IF "REFRESH" \in s.cvar_modified \/ "FILES" \in s.cvar_modified
    THEN ClearDirty(CL_RestartRefresh(s, "REFRESH" \in s.cvar_modified, in),
                    IF "REFRESH" \in s.cvar_modified THEN "REFRESH" ELSE "FILES")
    ELSE s

\* What the drain and the dirty-flag tail find, kept for the properties.
SeenDrain(s) ==
    [s EXCEPT !.obs.mask = s.mode_changed,
              !.obs.fsint = CvarInteger(s.vid_fullscreen),
              !.obs.ran = TRUE]

SeenDirty(s) ==
    [s EXCEPT !.obs.dirty = s.cvar_modified, !.obs.dmask = s.mode_changed]

\* CL_RunRefresh.  evs: what pump_events() delivers; wb: what the set_mode()
\* of the drain writes back; in: the inputs of a CL_InitRefresh, should a
\* full restart run.
\* Mutant: the dirty flags are examined before the mask is drained.
CL_RunRefresh_DirtyFirst(s, evs, wb, in) ==
    IF ~s.ref_initialized THEN s
    ELSE Drain(SeenDrain(DirtyFlags(SeenDirty(pump_events(s, evs)), in)), wb)

CL_RunRefresh(s, evs, wb, in) ==
    IF ~s.ref_initialized THEN s
    ELSE DirtyFlags(SeenDirty(Drain(SeenDrain(pump_events(s, evs)), wb)), in)

(***************************************************************************)
(* The state machine                                                       *)
(***************************************************************************)

\* Number of the calls of log whose name is name.
RECURSIVE Count(_, _)
Count(log, name) ==
    IF log = <<>> THEN 0
    ELSE (IF Head(log)[1] = name THEN 1 ELSE 0) + Count(Tail(log), name)

\* parse before any parser call: the results of the last VID_GetGeometry and
\* VID_GetFullscreen, and the rectangle the last VID_SetGeometry was given.
NoParse ==
    [geo |-> [ret |-> FALSE, rc |-> NoRect],
     fs |-> [ret |-> FALSE, rc |-> NoRect, freq |-> 0, depth |-> 0],
     written |-> NoRect]

\* hist tells whether the operation before the last one was a CL_InitRefresh
\* entered with ref_initialized false, and how many R_Init calls it made.
NoHist == [init |-> FALSE, n_R_Init |-> 0]

\* The inputs of one CL_InitRefresh.
InitInputs ==
    [probe : [Drivers -> ProbeKinds], ok : [Drivers -> BOOLEAN],
     ml : DriverModeLists, wb : {NoRect} \cup DriverRects]

NoInput ==
    [probe |-> [d \in Drivers |-> "none"], ok |-> [d \in Drivers |-> FALSE],
     ml |-> <<>>, wb |-> NoRect]

\* The sequences of at most n pump events.
RECURSIVE EventSeqs(_)
EventSeqs(n) ==
    IF n = 0 THEN {<<>>}
    ELSE LET shorter == EventSeqs(n - 1)
         IN  shorter \cup {Append(q, e) : q \in shorter, e \in PumpEvent}

\* r_config before the renderer has set a mode.
NoConfig == [width |-> 0, height |-> 0]

\* scale before any scale call: the result of the last get_auto_scale, the
\* cvar the last R_ClampScale was given (<<>>: a null pointer, <<v>>:
\* var->value is v tenths) and its result as <<numerator, denominator>>.
NoScale == [auto |-> 0, var |-> <<>>, clamp |-> <<0, 1>>]

\* trip outside a toggle round trip.  stage counts the operations of the
\* sequence tick, toggle, execute, tick, toggle, execute, tick done so far,
\* k is vid_fullscreen at its start; forced tells that the last operation
\* was a toggle from windowed with _vid_fullscreen->integer 0 ("toggled") or
\* the execution of the command such a toggle enqueued ("executed").
NoTrip == [stage |-> 0, k |-> <<>>, forced |-> "no"]

\* The state s after operation name, with what the operation observed, the
\* parser results p, the framebuffer size cfg, the driver's get_dpi_scale
\* member dpi, the scale results sc and the round-trip progress tr.
CommitTrip(s, name, in, p, cfg, dpi, sc, tr) ==
    /\ ref_initialized' = s.ref_initialized
    /\ ref_type' = s.ref_type
    /\ mode_changed' = s.mode_changed
    /\ vid' = s.vid
    /\ R_table' = s.R_table
    /\ cvar_ptrs' = s.cvar_ptrs
    /\ changed' = s.changed
    /\ cvar_defined' = s.cvar_defined
    /\ vid_fullscreen' = s.vid_fullscreen
    /\ _vid_fullscreen' = s._vid_fullscreen
    /\ vid_driver' = s.vid_driver
    /\ vid_rtx' = s.vid_rtx
    /\ vid_geometry' = s.vid_geometry
    /\ vid_modelist' = s.vid_modelist
    /\ cvar_modified' = s.cvar_modified
    /\ cmd_buffer' = s.cmd_buffer
    /\ fatal' = s.fatal
    /\ op' = name
    /\ calls' = s.calls
    /\ obs' = [s.obs EXCEPT !.probe = in.probe, !.drv = vid_driver,
                            !.was_init = ref_initialized]
    /\ hist' = IF op = "CL_InitRefresh" /\ ~obs.was_init
               THEN [init |-> TRUE, n_R_Init |-> Count(calls, "R_Init")]
               ELSE NoHist
    /\ parse' = p
    /\ r_config' = cfg
    /\ get_dpi_scale' = dpi
    /\ scale' = sc
    /\ trip' = tr
    /\ UNCHANGED build

\* The state s after an operation that is no part of a toggle round trip.
CommitAll(s, name, in, p, cfg, dpi, sc) ==
    CommitTrip(s, name, in, p, cfg, dpi, sc, NoTrip)

\* The state s after an operation that is no scale call and leaves the
\* framebuffer and the driver's members alone.
CommitWith(s, name, in, p) ==
    CommitAll(s, name, in, p, r_config, get_dpi_scale, NoScale)

\* The state s after an operation that is no parser call.
Commit(s, name, in) == CommitWith(s, name, in, NoParse)

\* The state before the first CL_InitRefresh, in a build of Builds.
Start(Builds) ==
    /\ ref_initialized = FALSE
    /\ ref_type = "REF_TYPE_NONE"
    /\ mode_changed = 0
    /\ vid = ""
    /\ R_table = "NULL"
    /\ cvar_ptrs = FALSE
    /\ changed = {}
    /\ cvar_defined = {}
    /\ vid_fullscreen = <<>>
    /\ _vid_fullscreen = <<>>
    /\ vid_driver = ""
    /\ vid_rtx = <<>>
    /\ vid_geometry = <<>>
    /\ vid_modelist = <<>>
    /\ cvar_modified = {}
    /\ cmd_buffer = <<>>
    /\ fatal = FALSE
    /\ build \in Builds
    /\ op = "none"
    /\ calls = <<>>
    /\ obs = NoObs
    /\ hist = NoHist
    /\ parse = NoParse
    /\ r_config = NoConfig
    /\ get_dpi_scale = <<>>
    /\ scale = NoScale
    /\ trip = NoTrip

\* The inputs with every driver probing and R_Init either succeeding with
\* all drivers or failing with all.
PlainInputs ==
    {in \in InitInputs :
        /\ \A d \in Drivers : in.probe[d] = "true"
        /\ \A d, e \in Drivers : in.ok[d] = in.ok[e]}

\* The operations of the module.  I: the inputs a CL_InitRefresh may get; one
\* called with ref_initialized true returns before it reads any.
InitRefresh(I) ==
    /\ ~fatal
    /\ \E in \in (IF ref_initialized THEN {NoInput} ELSE I) :
         Commit(CL_InitRefresh(Cur, in), "CL_InitRefresh", in)

ShutdownRefresh ==
    /\ ~fatal
    /\ Commit(CL_ShutdownRefresh(Cur), "CL_ShutdownRefresh", NoInput)

\* pump_events() and the drain leave cvar_modified alone, so the inputs of a
\* restart are drawn only for a tick that finds REFRESH dirty.
RunRefresh(I, E) ==
    /\ ~fatal
    /\ \E evs \in E, wb \in {NoRect} \cup DriverRects :
         \E in \in (IF "REFRESH" \in cvar_modified /\ ref_initialized
                    THEN I ELSE {NoInput}) :
            Commit(CL_RunRefresh(Cur, evs, wb, in), "CL_RunRefresh", in)

ToggleFullscreen ==
    /\ ~fatal
    /\ Commit(VID_ToggleFullscreen(Cur), "VID_ToggleFullscreen", NoInput)

\* The client's frame runs the command buffer.
CbufExecute ==
    /\ ~fatal
    /\ cmd_buffer # <<>>
    /\ Commit(Cbuf_Execute(Cur), "Cbuf_Execute", NoInput)

\* Writes of the cvars from the console or the configuration files.
SetFullscreen ==
    /\ ~fatal
    /\ \E v \in FsValues : Commit(Set_vid_fullscreen(Cur, v), "set vid_fullscreen", NoInput)

SetGeometry ==
    /\ ~fatal
    /\ \E v \in {VID_GEOMETRY} \cup {FormatGeometry(r) : r \in DriverRects} :
         Commit(Set_vid_geometry(Cur, v), "set vid_geometry", NoInput)

SetModelist ==
    /\ ~fatal
    /\ \E v \in LifeModeLists :
         Commit(Set_vid_modelist(Cur, v), "set vid_modelist", NoInput)

SetDriver ==
    /\ ~fatal
    /\ \E v \in DriverValues : Commit(Set_vid_driver(Cur, v), "set vid_driver", NoInput)

SetRtx ==
    /\ ~fatal
    /\ \E v \in RtxValues : Commit(Set_vid_rtx(Cur, v), "set vid_rtx", NoInput)

\* _vid_fullscreen as the configuration files leave it, before the module has
\* registered the cvar.
LoadUFullscreen ==
    /\ ~fatal
    /\ ~cvar_ptrs
    /\ \E v \in FsValues :
         Commit(Set_u_vid_fullscreen(Cur, v), "set _vid_fullscreen", NoInput)

\* A write of vid_display, registered with CVAR_REFRESH.
SetDisplay ==
    /\ ~fatal
    /\ Commit([Cur EXCEPT !.cvar_modified =
                    IF cvar_ptrs THEN @ \cup {"REFRESH"} ELSE @],
              "set vid_display", NoInput)

\* A write of some cvar registered elsewhere with CVAR_FILES.
SetFilesCvar ==
    /\ ~fatal
    /\ Commit([Cur EXCEPT !.cvar_modified = @ \cup {"FILES"}], "set files cvar", NoInput)

\* The mode-change machinery: every operation, the drivers all alike.
Next ==
    \/ InitRefresh(PlainInputs)
    \/ ShutdownRefresh
    \/ RunRefresh(PlainInputs, EventSeqs(MaxPumpEvents))
    \/ ToggleFullscreen
    \/ CbufExecute
    \/ SetFullscreen
    \/ SetGeometry
    \/ SetModelist
    \/ LoadUFullscreen
    \/ SetDisplay
    \/ SetFilesCvar

Init == Start({"BOTH"})

Spec == Init /\ [][Next]_vars

\* Loading and shutdown: every build, every registry environment and every
\* vid_driver.
NextLife ==
    \/ InitRefresh(InitInputs)
    \/ ShutdownRefresh
    \/ SetDriver
    \/ SetRtx

InitLife == Start({"GL", "VKPT", "BOTH"})

SpecLife == InitLife /\ [][NextLife]_vars

(***************************************************************************)
(* The parsers as operations                                               *)
(***************************************************************************)

\* vid_geometry strings as the configuration files may leave them.
GeometryTexts ==
    {<<"6", "4", "0", "x", "4", "8", "0">>,
     <<"3", "2", "0", "x", "2", "4", "0">>,
     <<"8", "1", "9", "2", "x", "8", "1", "9", "2", "+", "5", "-", "7">>,
     <<"1", "2", "8", "0", "X", "7", "2", "0", "-", "1", "0", "0", "-", "1", "0", "0">>,
     <<"1", "0", "0", "x", "1", "0", "0">>,
     <<"9", "9", "9", "9", "x", "9", "9", "9", "9">>,
     <<"3", "1", "9", "x", "2", "4", "0">>,
     <<"3", "2", "0", "x", "2", "3", "9">>,
     <<"8", "1", "9", "3", "x", "4", "8", "0">>,
     <<"6", "4", "0", "x", "8", "1", "9", "3">>,
     <<"6", "4", "0">>,
     <<"-", "6", "4", "0", "x", "4", "8", "0", "+", "0", "+", "0">>}

\* Those of them whose width or height is out of range.
OutOfRangeGeometry ==
    {<<"1", "0", "0", "x", "1", "0", "0">>,
     <<"9", "9", "9", "9", "x", "9", "9", "9", "9">>,
     <<"3", "1", "9", "x", "2", "4", "0">>,
     <<"3", "2", "0", "x", "2", "3", "9">>,
     <<"8", "1", "9", "3", "x", "4", "8", "0">>,
     <<"6", "4", "0", "x", "8", "1", "9", "3">>,
     <<"-", "6", "4", "0", "x", "4", "8", "0", "+", "0", "+", "0">>}

\* vid_modelist strings with a vid_fullscreen string.
ModeTexts ==
    {<<<<"d", "e", "s", "k", "t", "o", "p">>, <<"1">>>>,
     <<<<"6", "4", "0", "x", "4", "8", "0", " ", "d", "e", "s", "k", "t", "o", "p">>, <<"2">>>>,
     <<<<"1", "0", "0", "x", "1", "0", "0", " ", "8", "0", "0", "x", "6", "0", "0", "@", "7", "5", ":", "3", "2", " ", " ", "d", "e", "s", "k", "t", "o", "p">>, <<"3">>>>,
     <<<<"6", "4", "0", "x", "4", "8", "0", " ", "d", "e", "s", "k", "t", "o", "p">>, <<"1">>>>,
     <<<<"1", "0", "0", "x", "1", "0", "0", " ", "8", "0", "0", "x", "6", "0", "0", "@", "7", "5", ":", "3", "2", " ", " ", "d", "e", "s", "k", "t", "o", "p">>, <<"2">>>>,
     <<<<" ", "3", "2", "0", "x", "2", "4", "0", ":", "3", "2", "@", "1", "0", "0", "0", " ", "8", "1", "9", "2", "x", "8", "1", "9", "2">>, <<"1">>>>,
     <<<<" ", "3", "2", "0", "x", "2", "4", "0", ":", "3", "2", "@", "1", "0", "0", "0", " ", "8", "1", "9", "2", "x", "8", "1", "9", "2">>, <<"2">>>>,
     <<<<"1", "0", "0", "x", "1", "0", "0">>, <<"1">>>>,
     <<<<"9", "9", "9", "9", "x", "9", "9", "9", "9">>, <<"1">>>>,
     <<<<"6", "4", "0", "x", "4", "8", "0", "@", "9", "9", "9", "9">>, <<"1">>>>,
     <<<<"6", "4", "0", "x", "4", "8", "0", ":", "6", "4">>, <<"1">>>>,
     <<<<"6", "4", "0", "x", "4", "8", "0", " ", "8", "0", "0", "x", "2", "3", "9">>, <<"2">>>>,
     <<<<"6", "4", "0", "x", "4", "8", "0", "@", "7", "5", ":", "3", "3">>, <<"1">>>>,
     <<<<"6", "4", "0", "x", "4", "8", "0", ":", "3", "2", "@", "1", "0", "0", "1">>, <<"1">>>>,
     <<<<"6", "4", "0", "x", "4", "8", "0">>, <<"0">>>>,
     <<<<"6", "4", "0", "x", "4", "8", "0">>, <<"2">>>>,
     <<<<"d", "e", "s", "k", "t", "o", "p", "x", " ", "6", "4", "0", "x", "4", "8", "0">>, <<"2">>>>}

\* Those of them whose selected token is `desktop`.
DesktopModes ==
    {<<<<"d", "e", "s", "k", "t", "o", "p">>, <<"1">>>>,
     <<<<"6", "4", "0", "x", "4", "8", "0", " ", "d", "e", "s", "k", "t", "o", "p">>, <<"2">>>>,
     <<<<"1", "0", "0", "x", "1", "0", "0", " ", "8", "0", "0", "x", "6", "0", "0", "@", "7", "5", ":", "3", "2", " ", " ", "d", "e", "s", "k", "t", "o", "p">>, <<"3">>>>}

\* Those of them whose selected token is out of range.
OutOfRangeModes ==
    {<<<<"1", "0", "0", "x", "1", "0", "0">>, <<"1">>>>,
     <<<<"9", "9", "9", "9", "x", "9", "9", "9", "9">>, <<"1">>>>,
     <<<<"6", "4", "0", "x", "4", "8", "0", "@", "9", "9", "9", "9">>, <<"1">>>>,
     <<<<"6", "4", "0", "x", "4", "8", "0", ":", "6", "4">>, <<"1">>>>,
     <<<<"6", "4", "0", "x", "4", "8", "0", " ", "8", "0", "0", "x", "2", "3", "9">>, <<"2">>>>,
     <<<<"6", "4", "0", "x", "4", "8", "0", "@", "7", "5", ":", "3", "3">>, <<"1">>>>,
     <<<<"6", "4", "0", "x", "4", "8", "0", ":", "3", "2", "@", "1", "0", "0", "1">>, <<"1">>>>}

\* Window positions and sizes a driver reports.
Positions ==
    {<<INT_MIN, INT_MAX>>, <<INT_MAX, INT_MIN>>, <<-100, -100>>, <<-1, 0>>,
     <<0, 0>>, <<0, -1>>, <<1, 100>>, <<100, 1>>}
Widths == {320, 1280, 8192}
Heights == {240, 720, 8192}
RoundTripRects ==
    {Rect(xy[1], xy[2], w, h) : xy \in Positions, w \in Widths, h \in Heights}
OddRects == {Rect(0, 0, 319, 240), Rect(-1, 1, 320, 8193)}

\* The configuration files have set the three cvars before the module
\* registers them.
InitParse ==
    /\ ref_initialized = FALSE
    /\ ref_type = "REF_TYPE_NONE"
    /\ mode_changed = 0
    /\ vid = ""
    /\ R_table = "NULL"
    /\ cvar_ptrs = FALSE
    /\ changed = {}
    /\ cvar_defined = {"vid_geometry", "vid_modelist", "vid_fullscreen"}
    /\ vid_geometry \in GeometryTexts
    /\ \E m \in ModeTexts : vid_modelist = m[1] /\ vid_fullscreen = m[2]
    /\ _vid_fullscreen = <<>>
    /\ vid_driver = ""
    /\ vid_rtx = <<>>
    /\ cvar_modified = {}
    /\ cmd_buffer = <<>>
    /\ fatal = FALSE
    /\ build = "BOTH"
    /\ op = "none"
    /\ calls = <<>>
    /\ obs = NoObs
    /\ hist = NoHist
    /\ parse = NoParse
    /\ r_config = NoConfig
    /\ get_dpi_scale = <<>>
    /\ scale = NoScale
    /\ trip = NoTrip

\* A CL_InitRefresh whose first driver initializes and writes no geometry.
ParseInputs ==
    {in \in PlainInputs : in.wb = NoRect /\ \A d \in Drivers : in.ok[d]}

\* The driver reports its window: VID_SetGeometry.
WriteGeometry ==
    /\ ~fatal
    /\ \E rc \in RoundTripRects \cup OddRects :
         CommitWith(VID_SetGeometry(Cur, rc), "VID_SetGeometry", NoInput,
                    [NoParse EXCEPT !.written = rc])

\* The driver reads the window it is to open: VID_GetGeometry.
ReadGeometry ==
    /\ ~fatal
    /\ op # "VID_GetGeometry"
    /\ CommitWith(Cur, "VID_GetGeometry", NoInput,
                  [NoParse EXCEPT !.written = parse.written,
                                  !.geo = VID_GetGeometry(cvar_ptrs, vid_geometry)])

\* The driver reads the fullscreen mode: VID_GetFullscreen.
ReadFullscreen ==
    /\ ~fatal
    /\ op # "VID_GetFullscreen"
    /\ CommitWith(Cur, "VID_GetFullscreen", NoInput,
                  [NoParse EXCEPT !.fs = VID_GetFullscreen(
                                             cvar_ptrs, vid_modelist,
                                             CvarInteger(vid_fullscreen))])

NextParse ==
    \/ InitRefresh(ParseInputs)
    \/ WriteGeometry
    \/ ReadGeometry
    \/ ReadFullscreen

SpecParse == InitParse /\ [][NextParse]_vars

(***************************************************************************)
(* The scale functions as operations                                       *)
(***************************************************************************)

\* Framebuffer sizes the renderer reports, 16:9 and not, and what a driver's
\* get_dpi_scale member is.
ConfigWidths == {640, 1080, 1919, 1920, 2160, 3839, 3840, 5120}
ConfigHeights == {480, 1079, 1080, 1600, 2159, 2160, 3840}
Configs == {[width |-> w, height |-> h] : w \in ConfigWidths, h \in ConfigHeights}
DpiKinds == {<<>>, <<1>>, <<2>>, <<3>>, <<5>>}

\* The cvars R_ClampScale is given: a null pointer, or var->value in tenths.
ScaleVars == {<<>>, <<0>>, <<-20>>, <<5>>, <<10>>, <<15>>, <<25>>, <<100>>, <<105>>}

\* CL_InitRefresh with a driver that initializes: the driver copied into vid
\* brings its get_dpi_scale member, and the renderer's mode switch sets
\* r_config.
ScaleInit ==
    /\ ~fatal
    /\ ~ref_initialized
    /\ \E in \in ParseInputs, cfg \in Configs, dpi \in DpiKinds :
         CommitAll(CL_InitRefresh(Cur, in), "CL_InitRefresh", in, NoParse,
                   cfg, dpi, NoScale)

\* The window is resized: the renderer's R_ModeChanged sets r_config.
ModeChanged ==
    /\ ~fatal
    /\ ref_initialized
    /\ \E cfg \in Configs :
         CommitAll(Cur, "R_ModeChanged", NoInput, NoParse, cfg,
                   get_dpi_scale, NoScale)

GetAutoScale ==
    /\ ~fatal
    /\ op # "get_auto_scale"
    /\ CommitAll(Cur, "get_auto_scale", NoInput, NoParse, r_config,
                 get_dpi_scale,
                 [NoScale EXCEPT !.auto = get_auto_scale(r_config, get_dpi_scale)])

ClampScale ==
    /\ ~fatal
    /\ \E var \in ScaleVars :
         CommitAll(Cur, "R_ClampScale", NoInput, NoParse, r_config,
                   get_dpi_scale,
                   [NoScale EXCEPT !.var = var,
                                   !.clamp = R_ClampScale(var, r_config,
                                                          get_dpi_scale)])

NextScale ==
    \/ ScaleInit
    \/ ModeChanged
    \/ GetAutoScale
    \/ ClampScale

SpecScale == Init /\ [][NextScale]_vars

(***************************************************************************)
(* The fullscreen toggle: ticks, toggles and command-buffer executions,    *)
(* with the progress of a round trip kept in trip                          *)
(***************************************************************************)

\* s is the state a round trip starts in: initialized, fullscreen, the value
\* mirrored, no command waiting.
StartOfTrip(s) ==
    /\ s.ref_initialized /\ ~s.fatal
    /\ s.obs.ran
    /\ CvarInteger(s.vid_fullscreen) # 0
    /\ s._vid_fullscreen = s.vid_fullscreen
    /\ s.cmd_buffer = <<>>

\* trip after a tick that ended in s and whose pump_events() delivered evs.
AfterTick(tr, s, evs) ==
    IF tr.stage \in {3, 6} /\ evs = <<>>
    THEN [tr EXCEPT !.stage = @ + 1, !.forced = "no"]
    ELSE IF StartOfTrip(s)
    THEN [stage |-> 1, k |-> s.vid_fullscreen, forced |-> "no"]
    ELSE NoTrip

\* trip after a VID_ToggleFullscreen called in state pre.
Forced(pre) ==
    IF /\ pre.cvar_ptrs /\ pre.cmd_buffer = <<>>
       /\ CvarInteger(pre.vid_fullscreen) = 0
       /\ CvarInteger(pre._vid_fullscreen) = 0
    THEN "toggled" ELSE "no"

AfterToggle(tr, pre) ==
    IF tr.stage \in {1, 7} THEN [tr EXCEPT !.stage = 2, !.forced = Forced(pre)]
    ELSE IF tr.stage = 4 THEN [tr EXCEPT !.stage = 5, !.forced = Forced(pre)]
    ELSE [NoTrip EXCEPT !.forced = Forced(pre)]

\* trip after the execution of the command buffer.
AfterExecute(tr) ==
    [stage |-> IF tr.stage \in {2, 5} THEN tr.stage + 1 ELSE 0,
     k |-> IF tr.stage \in {2, 5} THEN tr.k ELSE <<>>,
     forced |-> IF tr.forced = "toggled" THEN "executed" ELSE "no"]

CommitTick(s, in, evs) ==
    CommitTrip(s, "CL_RunRefresh", in, NoParse, r_config, get_dpi_scale,
               NoScale, AfterTick(trip, s, evs))

TripTick ==
    /\ ~fatal
    /\ \E evs \in EventSeqs(MaxPumpEvents), wb \in {NoRect} \cup DriverRects :
         \E in \in (IF "REFRESH" \in cvar_modified /\ ref_initialized
                    THEN PlainInputs ELSE {NoInput}) :
            CommitTick(CL_RunRefresh(Cur, evs, wb, in), in, evs)

TripToggle ==
    /\ ~fatal
    /\ CommitTrip(VID_ToggleFullscreen(Cur), "VID_ToggleFullscreen", NoInput,
                  NoParse, r_config, get_dpi_scale, NoScale,
                  AfterToggle(trip, Cur))

TripExecute ==
    /\ ~fatal
    /\ cmd_buffer # <<>>
    /\ CommitTrip(Cbuf_Execute(Cur), "Cbuf_Execute", NoInput, NoParse,
                  r_config, get_dpi_scale, NoScale, AfterExecute(trip))

\* A write of _vid_fullscreen from the console.
SetUFullscreen ==
    /\ ~fatal
    /\ \E v \in FsValues :
         Commit(Set_u_vid_fullscreen(Cur, v), "set _vid_fullscreen", NoInput)

NextToggle ==
    \/ InitRefresh(PlainInputs)
    \/ TripTick
    \/ TripToggle
    \/ TripExecute
    \/ SetFullscreen
    \/ SetUFullscreen
    \/ SetDisplay

SpecToggle == Init /\ [][NextToggle]_vars

(***************************************************************************)
(* Properties                                                              *)
(***************************************************************************)

\* The calls of log made before the first call named name.
RECURSIVE Before(_, _)
Before(log, name) ==
    IF log = <<>> \/ Head(log)[1] = name THEN <<>>
    ELSE <<Head(log)>> \o Before(Tail(log), name)

\* The last operation was a CL_RunRefresh that got past its guard.
Ticked == op = "CL_RunRefresh" /\ obs.ran

\* set_mode() calls of the tick's drain, and of the whole tick.
DrainSetModes == Count(Before(calls, "CL_RestartRefresh"), "set_mode")
TickSetModes == Count(calls, "set_mode")
FullRestart == <<"CL_RestartRefresh", "true", "">> \in {calls[i] : i \in DOMAIN calls}

\* C1 as claimed: one tick results in at most one set_mode(), restarts
\* included.
C1_AtMostOneSetModePerTick == Ticked => TickSetModes <= 1

\* C1, amended: the drain of one tick calls set_mode() at most once; the tick
\* as a whole calls it once more exactly when a full restart runs
\* CL_InitRefresh up to its own set_mode(), so at most twice.
C1_DrainAtMostOneSetMode ==
    Ticked =>
        /\ DrainSetModes <= 1
        /\ TickSetModes = DrainSetModes + (IF FullRestart /\ ~fatal THEN 1 ELSE 0)

C1_Witness ==
    /\ Ticked
    /\ obs.mask = MODE_GEOMETRY + MODE_FULLSCREEN + MODE_MODELIST
    /\ DrainSetModes = 1
    /\ FullRestart
    /\ TickSetModes = 2

\* C2: a tick whose drain finds MODE_FULLSCREEN pending calls set_mode() in
\* the drain, whatever the other two bits and whatever vid_fullscreen.
C2_FullscreenAlwaysSetsMode ==
    Ticked /\ HasBit(obs.mask, MODE_FULLSCREEN) => DrainSetModes = 1

C2_Witness ==
    /\ Ticked
    /\ obs.mask = MODE_FULLSCREEN + MODE_GEOMETRY
    /\ obs.fsint = 0
    /\ DrainSetModes = 1

\* C3: a drain that finds only MODE_GEOMETRY pending while vid_fullscreen is
\* non-zero, or only MODE_MODELIST pending while vid_fullscreen is zero,
\* calls no set_mode().
C3_IrrelevantChangeIgnored ==
    Ticked /\ ( \/ (obs.mask = MODE_GEOMETRY /\ obs.fsint # 0)
                \/ (obs.mask = MODE_MODELIST /\ obs.fsint = 0) )
        => DrainSetModes = 0

C3_Witness ==
    /\ Ticked
    /\ obs.mask = MODE_GEOMETRY
    /\ obs.fsint # 0
    /\ DrainSetModes = 0
    /\ mode_changed = 0

\* C4 as claimed: in every state after the first CL_InitRefresh, a non-zero
\* vid_fullscreen equals _vid_fullscreen, and a zero one goes with a non-zero
\* _vid_fullscreen.
C4_MirrorInEveryState ==
    cvar_ptrs =>
        /\ CvarInteger(vid_fullscreen) # 0 => _vid_fullscreen = vid_fullscreen
        /\ CvarInteger(vid_fullscreen) = 0 => CvarInteger(_vid_fullscreen) # 0

\* C4, amended: the equality holds while the refresh is initialized and no
\* fullscreen change is pending in the mask (a write of vid_fullscreen is
\* mirrored by the next tick's drain, or by the next CL_InitRefresh); the
\* second half holds in every state after the first CL_InitRefresh.
C4_MirrorWhenDrained ==
    /\ ref_initialized /\ ~HasBit(mode_changed, MODE_FULLSCREEN)
       /\ CvarInteger(vid_fullscreen) # 0
         => _vid_fullscreen = vid_fullscreen
    /\ cvar_ptrs /\ CvarInteger(vid_fullscreen) = 0
         => CvarInteger(_vid_fullscreen) # 0

C4_Witness ==
    /\ Ticked
    /\ HasBit(obs.mask, MODE_FULLSCREEN)
    /\ ref_initialized
    /\ vid_fullscreen = <<"2">>
    /\ _vid_fullscreen = <<"2">>

\* The last operation was a CL_ShutdownRefresh of an initialized refresh.
ShutDown == op = "CL_ShutdownRefresh" /\ obs.was_init

\* C5 as claimed: after CL_ShutdownRefresh of an initialized refresh the
\* renderer's function pointers are all null and vid is zeroed.
C5_TableNullAfterShutdown == ShutDown => R_table = "NULL" /\ vid = ""

\* The R_Init calls of the log, and the drivers they ran with.
R_Inits(log) == SelectSeq(log, LAMBDA e : e[1] = "R_Init")
R_InitWith(log, d) == \E i \in DOMAIN log : log[i][1] = "R_Init" /\ log[i][2] = d
R_InitFailedWith(log, d) ==
    \E i \in DOMAIN log : log[i] = <<"R_Init", d, "REF_TYPE_NONE">>
R_InitSucceeded(log) ==
    {i \in DOMAIN log : log[i][1] = "R_Init" /\ log[i][3] # "REF_TYPE_NONE"}

\* The last operation was a CL_InitRefresh of a shut-down refresh with
\* vid_driver empty and a registry whose first driver does not probe while
\* the second and the third do.
FallbackCase ==
    /\ op = "CL_InitRefresh" /\ ~obs.was_init
    /\ obs.drv = ""
    /\ obs.probe["A"] \in {"none", "false"}
    /\ obs.probe["B"] = "true"
    /\ obs.probe["C"] = "true"

\* C6: in that case R_Init never runs with A active, runs first with B, runs
\* with C if and only if it returned REF_TYPE_NONE with B, and the active slot
\* is left holding the driver R_Init succeeded with.
C6_FallbackOrder ==
    FallbackCase =>
        /\ ~R_InitWith(calls, "A")
        /\ R_Inits(calls)[1][2] = "B"
        /\ R_InitWith(calls, "C") <=> R_InitFailedWith(calls, "B")
        /\ ~fatal => /\ Cardinality(R_InitSucceeded(calls)) = 1
                     /\ \A i \in R_InitSucceeded(calls) : vid = calls[i][2]

C6_Witness ==
    /\ FallbackCase
    /\ R_InitFailedWith(calls, "B")
    /\ R_InitWith(calls, "C")
    /\ vid = "C"
    /\ ref_initialized

WroteThenRead ==
    /\ op = "VID_GetGeometry"
    /\ cvar_ptrs
    /\ parse.written # NoRect

\* C8: a rectangle with 320 <= width <= 8192 and 240 <= height <= 8192 and
\* any signed x, y that VID_SetGeometry writes is what VID_GetGeometry then
\* returns, with success.
C8_GeometryRoundTrip ==
    /\ WroteThenRead
    /\ parse.written.width \in 320..8192
    /\ parse.written.height \in 240..8192
    => parse.geo = [ret |-> TRUE, rc |-> parse.written]

C8_Witness ==
    /\ WroteThenRead
    /\ parse.written = Rect(INT_MIN, INT_MAX, 8192, 240)
    /\ parse.geo.ret
    /\ parse.geo.rc.x = INT_MIN
    /\ parse.geo.rc.y = INT_MAX

\* The last operation was a VID_GetFullscreen with both cvars registered.
ReadMode == op = "VID_GetFullscreen" /\ cvar_ptrs

\* C9: when vid_fullscreen selects a `desktop` token, VID_GetFullscreen
\* yields width = height = freq = depth = 0.
C9_DesktopYieldsZeros ==
    ReadMode /\ <<vid_modelist, vid_fullscreen>> \in DesktopModes =>
        /\ parse.fs.rc.width = 0
        /\ parse.fs.rc.height = 0
        /\ parse.fs.freq = 0
        /\ parse.fs.depth = 0

\* C10: when the selected value is out of range, VID_GetGeometry and
\* VID_GetFullscreen return false and their outputs hold the defaults they
\* were filled with (640x480 at 0,0 with freq = depth = 0 for fullscreen).
C10_OutOfRangeKeepsDefaults ==
    /\ op = "VID_GetGeometry" /\ cvar_ptrs /\ vid_geometry \in OutOfRangeGeometry
         => parse.geo = [ret |-> FALSE, rc |-> Rect(100, 100, 1280, 720)]
    /\ ReadMode /\ <<vid_modelist, vid_fullscreen>> \in OutOfRangeModes
         => parse.fs = [ret |-> FALSE, rc |-> Rect(0, 0, 640, 480),
                        freq |-> 0, depth |-> 0]

C10_Witness ==
    /\ ReadMode
    /\ vid_modelist = <<"6", "4", "0", "x", "4", "8", "0", ":", "6", "4">>
    /\ ~parse.fs.ret
    /\ parse.fs.rc.width = 640
    /\ parse.fs.depth = 0

\* The last operation was a get_auto_scale with no DPI hint.
AutoScaled == op = "get_auto_scale" /\ get_dpi_scale = <<>>

\* C11: with no DPI hint get_auto_scale returns, for height < width, 4 when
\* width >= 3840, 2 when width >= 1920, else 1, and otherwise 4 when
\* height >= 2160, 2 when height >= 1080, else 1.
C11_ScaleFromLargerAxis ==
    AutoScaled =>
        scale.auto =
            IF r_config.height < r_config.width
            THEN (IF r_config.width >= 3840 THEN 4
                  ELSE IF r_config.width >= 1920 THEN 2 ELSE 1)
            ELSE (IF r_config.height >= 2160 THEN 4
                  ELSE IF r_config.height >= 1080 THEN 2 ELSE 1)

\* Position of the first call named name in log (Len(log) + 1 when none).
Pos(log, name) == Len(Before(log, name)) + 1

\* C12: CL_ShutdownRefresh shuts the dependent subsystems down in the reverse
\* of their initialization order: UI first, then screen, then view.
C12_ShutdownInReverse ==
    ShutDown =>
        /\ Pos(calls, "UI_Shutdown") < Pos(calls, "SCR_Shutdown")
        /\ Pos(calls, "SCR_Shutdown") < Pos(calls, "V_Shutdown")
        /\ Pos(calls, "V_Shutdown") <= Len(calls)

\* The number of set_mode() calls the drain owes to a mask and a
\* vid_fullscreen->integer.
Owed(mask, fsint) ==
    IF HasBit(mask, MODE_FULLSCREEN) THEN 1
    ELSE IF fsint # 0 THEN (IF HasBit(mask, MODE_MODELIST) THEN 1 ELSE 0)
    ELSE (IF HasBit(mask, MODE_GEOMETRY) THEN 1 ELSE 0)

\* C13: in a tick with ref_initialized true pump_events() is called exactly
\* once and before any set_mode() of the drain, and the drain, the clearing
\* of the mask included, is over before the dirty flags are examined and any
\* restart begins.
C13_PumpThenDrainThenFlags ==
    Ticked =>
        /\ Count(calls, "pump_events") = 1
        /\ calls[1] = Ev("pump_events")
        /\ obs.dmask = 0
        /\ DrainSetModes = Owed(obs.mask, obs.fsint)

C13_Witness ==
    /\ Ticked
    /\ obs.mask # 0
    /\ DrainSetModes = 1
    /\ "REFRESH" \in obs.dirty
    /\ FullRestart

\* The number of the calls of log that are ev.
Times(log, ev) == Cardinality({i \in DOMAIN log : log[i] = ev})
FullRestarts == Times(calls, <<"CL_RestartRefresh", "true", "">>)
MediaRestarts == Times(calls, <<"CL_RestartRefresh", "false", "">>)

\* C14: a tick restarts at most once: fully when REFRESH is set, whatever
\* FILES is, media-only when FILES is set and REFRESH is not; the flag that
\* caused the restart is clear when the tick ends.
C14_OneRestartPerTick ==
    Ticked =>
        /\ FullRestarts + MediaRestarts <= 1
        /\ FullRestarts = 1 <=> "REFRESH" \in obs.dirty
        /\ MediaRestarts = 1 <=>
               ("FILES" \in obs.dirty /\ "REFRESH" \notin obs.dirty)
        /\ (FullRestarts = 1 /\ ~fatal) => "REFRESH" \notin cvar_modified
        /\ MediaRestarts = 1 => "FILES" \notin cvar_modified

C14_Witness ==
    /\ Ticked
    /\ obs.dirty = {"FILES"}
    /\ MediaRestarts = 1
    /\ "FILES" \notin cvar_modified

\* The last operation was a CL_InitRefresh of a shut-down refresh.
Initialising == op = "CL_InitRefresh" /\ ~obs.was_init

\* C15: when R_Init fails with the explicitly selected driver and with every
\* probing driver, CL_InitRefresh raises the fatal error and reaches neither
\* get_mode_list(), set_mode(), the attachment of the callbacks nor the
\* initialization of the subsystems; ref_initialized stays false.
C15_FatalWhenAllFail ==
    (Initialising /\ R_InitSucceeded(calls) = {}) =>
        /\ fatal
        /\ calls[Len(calls)] = Ev("Com_Error")
        /\ \A name \in {"get_mode_list", "set_mode", "FX_Init", "V_Init",
                        "SCR_Init", "UI_Init", "SCR_RegisterMedia"} :
               Count(calls, name) = 0
        /\ changed = {}
        /\ ~ref_initialized

C15_Witness ==
    /\ Initialising
    /\ Count(calls, "R_Init") = NumDrivers
    /\ R_InitSucceeded(calls) = {}
    /\ fatal

\* C16: vid_driver keeps its value when it names a registered driver whose
\* R_Init succeeds; when the fallback loop selects the driver, vid_driver is
\* empty after a successful CL_InitRefresh.
C16_DriverCvarAfterInit ==
    (Initialising /\ ~fatal) =>
        IF R_InitWith(calls, obs.drv) /\ ~R_InitFailedWith(calls, obs.drv)
        THEN vid_driver = obs.drv /\ vid = obs.drv
        ELSE vid_driver = "" /\ vid # obs.drv

C16_Witness ==
    /\ Initialising
    /\ obs.drv = "A"
    /\ R_InitFailedWith(calls, "A")
    /\ vid = "B"
    /\ vid_driver = ""
    /\ ref_initialized

\* The last operation was an R_ClampScale; its result is num / den, the
\* cvar's value is counted in tenths.
Clamped == op = "R_ClampScale"
IsReciprocalOf(q, num, den) == q[1] * num = q[2] * den
ValueInRange(v) == IF v < 10 THEN 10 ELSE IF v > 100 THEN 100 ELSE v

\* C17 as claimed: R_ClampScale returns the reciprocal of get_auto_scale()
\* both when the cvar is null and when its value is zero, otherwise the
\* reciprocal of the value clamped to [1, 10].
C17_NullAndZeroUseAutoScale ==
    Clamped =>
        IF scale.var = <<>> \/ scale.var[1] = 0
        THEN IsReciprocalOf(scale.clamp, get_auto_scale(r_config, get_dpi_scale), 1)
        ELSE IsReciprocalOf(scale.clamp, ValueInRange(scale.var[1]), 10)

\* C17, amended: R_ClampScale returns 1 when the cvar is null, the reciprocal
\* of get_auto_scale() when the cvar's value is zero, and otherwise the
\* reciprocal of the value clamped to [1, 10].
C17_NullIsOne ==
    Clamped =>
        IF scale.var = <<>> THEN IsReciprocalOf(scale.clamp, 1, 1)
        ELSE IF scale.var[1] = 0
        THEN IsReciprocalOf(scale.clamp, get_auto_scale(r_config, get_dpi_scale), 1)
        ELSE IsReciprocalOf(scale.clamp, ValueInRange(scale.var[1]), 10)

C17_Witness ==
    /\ Clamped
    /\ scale.var = <<>>
    /\ r_config = [width |-> 3840, height |-> 2160]
    /\ get_auto_scale(r_config, get_dpi_scale) = 4
    /\ scale.clamp = <<1, 1>>

\* The three change callbacks are attached exactly when ref_initialized is
\* true.
Callbacks == {"vid_geometry", "vid_fullscreen", "vid_modelist"}
AttachedWhileInitialized ==
    IF ref_initialized THEN changed = Callbacks ELSE changed = {}

\* A CL_RunRefresh called with ref_initialized false calls nothing and leaves
\* the mask and the dirty flags unchanged.
TickWhileDown ==
    (op' = "CL_RunRefresh" /\ ~ref_initialized) =>
        /\ calls' = <<>>
        /\ UNCHANGED <<mode_changed, cvar_modified>>

\* C18 as claimed: the callbacks are attached exactly while ref_initialized is
\* true, so the mask is non-zero only while ref_initialized is true, and a
\* CL_RunRefresh with ref_initialized false calls neither pump_events() nor
\* set_mode() and leaves the mask and the dirty flags unchanged.
C18_MaskOnlyWhileInitialized ==
    [][/\ AttachedWhileInitialized'
       /\ mode_changed' # 0 => ref_initialized'
       /\ TickWhileDown]_vars

\* C18, amended: the callbacks are attached exactly while ref_initialized is
\* true, so the mask changes only while ref_initialized is true;
\* CL_ShutdownRefresh leaves the mask as it is, and a mask that was pending
\* stays until the next successful CL_InitRefresh zeroes it; a CL_RunRefresh
\* with ref_initialized false calls neither pump_events() nor set_mode() and
\* leaves the mask and the dirty flags unchanged.
C18_MaskFrozenWhileDown ==
    [][/\ AttachedWhileInitialized'
       /\ ~ref_initialized =>
              \/ mode_changed' = mode_changed
              \/ ref_initialized' /\ mode_changed' = 0
       /\ op' = "CL_ShutdownRefresh" => mode_changed' = mode_changed
       /\ TickWhileDown]_vars

C18_Witness ==
    /\ op = "CL_RunRefresh"
    /\ ~obs.was_init
    /\ ~ref_initialized
    /\ mode_changed # 0
    /\ changed = {}
    /\ calls = <<>>

\* The calls of a tick up to the drain's set_mode() (those pump_events()
\* caused) and the calls of the drain from its set_mode() on.
CallbackNames ==
    {"vid_geometry_changed", "vid_fullscreen_changed", "vid_modelist_changed"}
BitOf(name) ==
    IF name = "vid_geometry_changed" THEN MODE_GEOMETRY
    ELSE IF name = "vid_fullscreen_changed" THEN MODE_FULLSCREEN
    ELSE MODE_MODELIST
DrainPhase(log) == Before(log, "CL_RestartRefresh")
PumpPhase(log) == Before(DrainPhase(log), "set_mode")
FiredInPump(log) ==
    {PumpPhase(log)[i][1] : i \in DOMAIN PumpPhase(log)} \cap CallbackNames
FiredInDrain(log) ==
    {DrainPhase(log)[i][1] :
        i \in (Len(PumpPhase(log)) + 1)..Len(DrainPhase(log))} \cap CallbackNames

\* C19: the mask is 0 at the end of every tick executed with ref_initialized
\* true, whether or not set_mode() was called; a callback that fires during
\* the drain's set_mode() is discarded and causes no set_mode() in the
\* following tick, and a callback fired during pump_events() is drained in
\* the same tick.
C19_MaskZeroAfterTick ==
    [][(op' = "CL_RunRefresh" /\ ref_initialized) =>
          /\ mode_changed' = 0
          /\ \A name \in FiredInPump(calls') : HasBit(obs'.mask, BitOf(name))
          /\ (Ticked /\ FiredInPump(calls') = {}) =>
                 /\ obs'.mask = 0
                 /\ Count(DrainPhase(calls'), "set_mode") = 0]_vars

C19_Witness ==
    /\ Ticked
    /\ DrainSetModes = 1
    /\ FiredInDrain(calls) = {"vid_geometry_changed"}
    /\ mode_changed = 0

\* C20: starting initialized in fullscreen with vid_fullscreen = k, k not
\* zero, after a tick has mirrored it, the sequence toggle, command-buffer
\* execution, tick, toggle, command-buffer execution, tick ends with
\* vid_fullscreen = k again and set_mode() is called exactly once in each of
\* the two ticks; a toggle from windowed with _vid_fullscreen = 0 first
\* forces _vid_fullscreen to 1, so that the command it enqueues does not
\* leave vid_fullscreen at 0.
C20_ToggleRoundTrip ==
    /\ trip.stage = 4 =>
           /\ TickSetModes = 1
           /\ CvarInteger(vid_fullscreen) = 0
    /\ trip.stage = 7 =>
           /\ TickSetModes = 1
           /\ vid_fullscreen = trip.k
    /\ trip.forced = "toggled" =>
           /\ _vid_fullscreen = <<"1">>
           /\ cmd_buffer = <<CmdRestore>>
    /\ trip.forced = "executed" => CvarInteger(vid_fullscreen) # 0

C20_Witness ==
    /\ trip.stage = 7
    /\ trip.k = <<"2">>
    /\ vid_fullscreen = <<"2">>
    /\ _vid_fullscreen = <<"2">>
    /\ TickSetModes = 1

====
